---- MODULE Spec2Model ----
(***************************************************************************)
(* The annotation canvas of YOLOToolbox (src/annotation.py, class          *)
(* AnnotationModule) as a state machine: one action per Qt event handler.  *)
(*                                                                         *)
(* Conventions.                                                            *)
(*  - Python None is the empty tuple <<>> for start_point, current_box and *)
(*    txt_path, and -1 for current_image_path and qt_pixmap (row indices). *)
(*  - An image path is identified with its row in the sorted file list     *)
(*    (load_dataset sorts the paths, the files on disk are a fixture).     *)
(*  - Floats are exact rationals <<num, den>>, den > 0, in lowest terms;   *)
(*    IEEE rounding is not modelled.  int() truncates toward zero.         *)
(*  - A label-file number printed with 6 decimals is an integer count of   *)
(*    millionths.                                                          *)
(***************************************************************************)
EXTENDS Integers, Sequences, FiniteSets, TLC

---------------------------------------------------------------------------
(* Fixture: the files of the dataset directory.                            *)

\* width, height of the image of each row; <<0, 0>>: cv2.imread returns None.
\* Row 3 has sizes that do not divide a million, row 4 is a photograph,
\* row 5 is far larger than the canvas.
ImageDims == << <<10, 8>>, <<4, 4>>, <<0, 0>>, <<3, 7>>, <<1000, 800>>, <<2000, 1600>> >>

Rows == 0 .. (Len(ImageDims) - 1)

ImageW(r) == ImageDims[r + 1][1]

ImageH(r) == ImageDims[r + 1][2]

Decodable(r) == ImageW(r) > 0

\* whether 'images' is one of the parts of the image path of each row
InImagesDir == <<TRUE, FALSE, TRUE, TRUE, FALSE, TRUE>>

\* whether the parent directory of the mirrored labels/ path exists
LabelsDirExists == <<TRUE, FALSE, FALSE, FALSE, FALSE, TRUE>>

\* img_path.with_suffix('.txt')
OwnTxt(r) == <<r, "own">>

\* the path with the last 'images' part replaced by 'labels', suffix .txt
LabelsTxt(r) == <<r, "labels">>

TxtPaths == {OwnTxt(r) : r \in Rows} \cup {LabelsTxt(r) : r \in Rows}

\* the widget size of annotate_image_label when the window is first shown
CanvasSize == <<12, 10>>

\* the class tables a classes file can hold
ClassTables == { <<>>, <<"cat", "dog">> }

---------------------------------------------------------------------------
(* Bounds of the model.                                                    *)

\* most boxes a gesture may add to one image
MaxBoxes == 1

\* most wheel steps away from a scale whose denominator is that of the fit
MaxScaleDen == 400

\* largest |offset| coordinate a pan or zoom may produce
MaxOffset == 120

---------------------------------------------------------------------------
(* Arithmetic.                                                             *)

Abs(a) == IF a < 0 THEN -a ELSE a

Min(a, b) == IF a < b THEN a ELSE b

Max(a, b) == IF a > b THEN a ELSE b

\* Python int(a / b) for b > 0: truncation toward zero
TruncDiv(a, b) == IF a >= 0 THEN a \div b ELSE -((-a) \div b)

RECURSIVE GCD(_, _)
GCD(a, b) == IF b = 0 THEN a ELSE GCD(b, a % b)

\* the rational n/d, d > 0, in lowest terms
Rat(n, d) == LET g == GCD(Abs(n), d) IN <<n \div g, d \div g>>

RatMul(p, q) == Rat(p[1] * q[1], p[2] * q[2])

RatDiv(p, q) == Rat(p[1] * q[2], p[2] * q[1])

RatLess(p, q) == p[1] * q[2] < q[1] * p[2]

RatMin(p, q) == IF RatLess(q, p) THEN q ELSE p

RatMax(p, q) == IF RatLess(p, q) THEN q ELSE p

---------------------------------------------------------------------------
(* State.                                                                  *)

VARIABLES
    drawing,             \* self.drawing: draw-mode flag
    boxes,               \* self.boxes: sequence of box records
    current_image_path,  \* self.current_image_path: row of the path, -1 None
    image_list_data,     \* self.image_list_data: sequence of records
    classes,             \* self.classes: sequence of class names
    qt_pixmap,           \* self.qt_pixmap: row of the decoded image, -1 None
    img_width,           \* self.img_width
    img_height,          \* self.img_height
    is_modified,         \* self.is_modified
    last_selected_row,   \* self.last_selected_row
    scale_factor,        \* self.scale_factor, a rational
    offset,              \* self.offset, <<x, y>>
    last_mouse_pos,      \* self.last_mouse_pos, <<x, y>>
    panning,             \* self.panning
    start_point,         \* self.start_point: <<>> or <<ix, iy>>
    current_box,         \* self.current_box: <<>> or <<rectangle record>>
    btn_checked,         \* btn_draw_box.isChecked()
    save_enabled,        \* btn_save_annot.isEnabled()
    class_index,         \* class_combo.currentIndex()
    selected_row,        \* the row image_list highlights, -1 none
    label_files,         \* the label files on disk: path -> [exists, lines]
    held,                \* the mouse buttons held down over the canvas
    pc,                  \* "idle", or "ask" while the unsaved-changes box is open
    pending_row,         \* the row argument of on_image_list_clicked while "ask"
    msg,                 \* the message box the last handler showed, "" none
    reply,               \* the button that closed the last question box, "" none
    label_size           \* width and height of annotate_image_label

sessionVars == <<boxes, current_image_path, image_list_data, qt_pixmap, img_width, img_height, is_modified, last_selected_row, save_enabled>>

gestureVars == <<drawing, btn_checked, panning, start_point, current_box, last_mouse_pos>>

viewVars == <<scale_factor, offset, label_size>>

envVars == <<classes, class_index, selected_row, label_files, held>>

ctlVars == <<pc, pending_row, msg, reply>>

vars == <<sessionVars, gestureVars, viewVars, envVars, ctlVars>>

---------------------------------------------------------------------------
(* The label files found on disk when the program starts.                  *)

Line(cid, xc, yc, w, h) == [kind |-> "ok", cid |-> cid, xc |-> xc, yc |-> yc, w |-> w, h |-> h]

NoFile == [exists |-> FALSE, lines |-> <<>>]

File(lines) == [exists |-> TRUE, lines |-> lines]

\* row 0: labels/0.txt holds one box; row 1: 1.txt holds a zero-width box
InitialDisk == [p \in TxtPaths |-> IF p = LabelsTxt(0) THEN File(<<Line(1, 400000, 500000, 400000, 500000)>>) ELSE IF p = OwnTxt(1) THEN File(<<Line(0, 500000, 500000, 0, 500000)>>) ELSE NoFile]

\* AnnotationModule.__init__ and init_ui
Init ==
    /\ drawing = FALSE
    /\ boxes = <<>>
    /\ current_image_path = -1
    /\ image_list_data = <<>>
    /\ classes = <<>>
    /\ qt_pixmap = -1
    /\ img_width = 0
    /\ img_height = 0
    /\ is_modified = FALSE
    /\ last_selected_row = -1
    /\ scale_factor = <<1, 1>>
    /\ label_size = CanvasSize
    /\ offset = <<0, 0>>
    /\ last_mouse_pos = <<0, 0>>
    /\ panning = FALSE
    /\ start_point = <<>>
    /\ current_box = <<>>
    /\ btn_checked = FALSE
    /\ save_enabled = FALSE
    /\ class_index = -1
    /\ selected_row = -1
    /\ label_files = InitialDisk
    /\ held = {}
    /\ pc = "idle"
    /\ pending_row = -1
    /\ msg = {}
    /\ reply = ""

---------------------------------------------------------------------------
(* Viewport: reset_view_fit, screen_to_img, on_wheel_event.                *)

\* variant of screen_to_img that forgets the offset
ScreenToImg_NoOffset(sx, sy, sc, off) == <<TruncDiv(sx * sc[2], sc[1]), TruncDiv(sy * sc[2], sc[1])>>

\* screen_to_img: int((s - offset) / scale_factor), per axis
ScreenToImg(sx, sy, sc, off) == <<TruncDiv((sx - off[1]) * sc[2], sc[1]), TruncDiv((sy - off[2]) * sc[2], sc[1])>>

\* img_to_screen: int(x * scale_factor + offset), per axis
ImgToScreen(x, y, sc, off) == <<TruncDiv(x * sc[1] + off[1] * sc[2], sc[2]), TruncDiv(y * sc[1] + off[2] * sc[2], sc[2])>>

\* max(0, min(i, limit))
Clamp(i, limit) == Max(0, Min(i, limit))

\* the image point under a pointer position, clamped into the image
ClampedImgPoint(sx, sy) == LET p == ScreenToImg(sx, sy, scale_factor, offset) IN <<Clamp(p[1], img_width), Clamp(p[2], img_height)>>

\* reset_view_fit: min(label_w / img_width, label_h / img_height) * 0.95
FitScale(lw, lh, w, h) == RatMul(RatMin(Rat(lw, w), Rat(lh, h)), Rat(95, 100))

\* reset_view_fit: QPoint(int((label_w - new_w) / 2), int((label_h - new_h) / 2))
FitOffset(lw, lh, w, h, sc) == <<TruncDiv(lw * sc[2] - w * sc[1], 2 * sc[2]), TruncDiv(lh * sc[2] - h * sc[1], 2 * sc[2])>>

\* the viewport reset_view_fit leaves, given the pixmap and image size at the call
ResetViewFit(pix, w, h, sc, off) ==
    IF pix = -1 \/ label_size[1] = 0 \/ label_size[2] = 0
    THEN [scale |-> sc, offset |-> off]
    ELSE LET s == FitScale(label_size[1], label_size[2], w, h)
         IN [scale |-> s, offset |-> FitOffset(label_size[1], label_size[2], w, h, s)]

\* on_wheel_event: max(0.01, min(scale_factor * zoom_rate, 50.0))
ZoomScale(sc, zoom_in) == RatMax(Rat(1, 100), RatMin(RatMul(sc, IF zoom_in THEN Rat(11, 10) ELSE Rat(9, 10)), Rat(50, 1)))

\* on_wheel_event: int(mouse - (mouse - offset) * (scale_factor / old_scale)), one axis
ZoomOffsetAxis(m, o, ratio) == TruncDiv(m * ratio[2] - (m - o) * ratio[1], ratio[2])

ZoomOffset(mx, my, off, old, new) == LET r == RatDiv(new, old) IN <<ZoomOffsetAxis(mx, off[1], r), ZoomOffsetAxis(my, off[2], r)>>

---------------------------------------------------------------------------
(* Label codec: the parse loop of load_image_data, the write loop of       *)
(* save_annotation.                                                        *)

Million == 1000000

Digits == <<"0", "1", "2", "3", "4", "5", "6", "7", "8", "9">>

\* str(n)
RECURSIVE Str(_)
Str(n) == IF n < 0 THEN "-" \o Str(-n) ELSE IF n < 10 THEN Digits[n + 1] ELSE Str(n \div 10) \o Digits[(n % 10) + 1]

\* f"{a / b:.6f}" in millionths, b > 0: nearest, ties to even
RoundDiv(a, b) ==
    LET n == Abs(a)
        q == n \div b
        r == n % b
        up == IF 2 * r > b \/ (2 * r = b /\ q % 2 = 1) THEN q + 1 ELSE q
    IN IF a < 0 THEN -up ELSE up

\* variant of EncodeBox that writes the top-left corner, not the centre
EncodeBox_Corner(b, w, h) == Line(b.class_id, RoundDiv(b.x1 * Million, w), RoundDiv(b.y1 * Million, h), RoundDiv((b.x2 - b.x1) * Million, w), RoundDiv((b.y2 - b.y1) * Million, h))

\* the line save_annotation writes for one box
EncodeBox(b, w, h) == Line(b.class_id, RoundDiv((b.x1 + b.x2) * Million, 2 * w), RoundDiv((b.y1 + b.y2) * Million, 2 * h), RoundDiv((b.x2 - b.x1) * Million, w), RoundDiv((b.y2 - b.y1) * Million, h))

EncodeBoxes(bs, w, h) == [i \in 1 .. Len(bs) |-> EncodeBox(bs[i], w, h)]

\* self.classes[cid] raises IndexError for cid < -len(self.classes)
ClassNameRaises(cid, cls) == cid < 0 /\ -cid > Len(cls)

\* self.classes[cid] if cid < len(self.classes) else str(cid)
ClassName(cid, cls) == IF cid >= Len(cls) THEN Str(cid) ELSE IF cid >= 0 THEN cls[cid + 1] ELSE cls[Len(cls) + cid + 1]

\* variant of DecodeLine that takes the whole size, not half of it, to
\* each side of the centre
DecodeLine_FullSize(l, w, h, cls) == [class_id |-> l.cid, class_name |-> ClassName(l.cid, cls), x1 |-> TruncDiv((l.xc - l.w) * w, Million), y1 |-> TruncDiv((l.yc - l.h) * h, Million), x2 |-> TruncDiv((l.xc + l.w) * w, Million), y2 |-> TruncDiv((l.yc + l.h) * h, Million)]

\* the box appended for a line of five numeric tokens
DecodeLine(l, w, h, cls) == [class_id |-> l.cid, class_name |-> ClassName(l.cid, cls), x1 |-> TruncDiv((2 * l.xc - l.w) * w, 2 * Million), y1 |-> TruncDiv((2 * l.yc - l.h) * h, 2 * Million), x2 |-> TruncDiv((2 * l.xc + l.w) * w, 2 * Million), y2 |-> TruncDiv((2 * l.yc + l.h) * h, 2 * Million)]

\* the parse loop: a line of fewer than 5 tokens ("short") is skipped; a
\* token that is no number ("nan") or a class lookup that raises ends the
\* loop, the except clause keeping the boxes appended so far
RECURSIVE ParseLines(_, _, _, _)
ParseLines(lines, w, h, cls) ==
    IF lines = <<>> THEN <<>>
    ELSE LET l == Head(lines)
         IN IF l.kind = "short" THEN ParseLines(Tail(lines), w, h, cls)
            ELSE IF l.kind = "nan" \/ ClassNameRaises(l.cid, cls) THEN <<>>
            ELSE <<DecodeLine(l, w, h, cls)>> \o ParseLines(Tail(lines), w, h, cls)

---------------------------------------------------------------------------
(* Dataset list, load and save.                                            *)

\* load_dataset: the label file found for an image, own .txt first
ScanTxtPath(r, files) == IF files[OwnTxt(r)].exists THEN OwnTxt(r) ELSE IF InImagesDir[r + 1] /\ files[LabelsTxt(r)].exists THEN LabelsTxt(r) ELSE <<>>

\* load_dataset: the record appended for an image
ScanRecord(r, files) == LET t == ScanTxtPath(r, files) IN [path |-> r, txt_path |-> t, has_annotation |-> (t # <<>>), annot_count |-> IF t = <<>> THEN 0 ELSE Len(files[t].lines)]

\* variant of SavePath that always writes next to the image
SavePath_NextToImage == OwnTxt(current_image_path)

\* save_annotation: the destination of the write
SavePath ==
    IF last_selected_row >= 0 /\ image_list_data[last_selected_row + 1].txt_path # <<>>
    THEN image_list_data[last_selected_row + 1].txt_path
    ELSE IF InImagesDir[current_image_path + 1] /\ LabelsDirExists[current_image_path + 1]
         THEN LabelsTxt(current_image_path)
         ELSE OwnTxt(current_image_path)

\* the ways the open and the write loop of save_annotation can end
SaveOutcomes == {<<"ok", 0>>, <<"open_fail", 0>>} \cup {<<"write_fail", k>> : k \in 0 .. Len(boxes) - 1}

\* the record save_annotation updates after a write that succeeded
SavedRecords(ild, row, path, n) == IF row >= 0 THEN [ild EXCEPT ![row + 1].txt_path = path, ![row + 1].has_annotation = (n > 0)] ELSE ild

\* variant of SaveResult that clears the flag and updates the record
\* before the file is opened, so that a failure leaves them changed
SaveResult_MarksSavedFirst(io) ==
    IF current_image_path = -1
    THEN [files |-> label_files, ild |-> image_list_data, mod |-> is_modified, msg |-> {}]
    ELSE IF io[1] = "ok"
    THEN [files |-> [label_files EXCEPT ![SavePath] = File(EncodeBoxes(boxes, img_width, img_height))], ild |-> SavedRecords(image_list_data, last_selected_row, SavePath, Len(boxes)), mod |-> FALSE, msg |-> {}]
    ELSE IF io[1] = "open_fail"
    THEN [files |-> label_files, ild |-> SavedRecords(image_list_data, last_selected_row, SavePath, Len(boxes)), mod |-> FALSE, msg |-> {"SaveFailed"}]
    ELSE [files |-> [label_files EXCEPT ![SavePath] = File(SubSeq(EncodeBoxes(boxes, img_width, img_height), 1, io[2]))], ild |-> SavedRecords(image_list_data, last_selected_row, SavePath, Len(boxes)), mod |-> FALSE, msg |-> {"SaveFailed"}]

\* save_annotation: what it leaves of the disk, the list, the flag, and
\* the message it shows, when the open and the writes end as io says
SaveResult(io) ==
    IF current_image_path = -1
    THEN [files |-> label_files, ild |-> image_list_data, mod |-> is_modified, msg |-> {}]
    ELSE IF io[1] = "ok"
    THEN [files |-> [label_files EXCEPT ![SavePath] = File(EncodeBoxes(boxes, img_width, img_height))], ild |-> SavedRecords(image_list_data, last_selected_row, SavePath, Len(boxes)), mod |-> FALSE, msg |-> {}]
    ELSE IF io[1] = "open_fail"
    THEN [files |-> label_files, ild |-> image_list_data, mod |-> is_modified, msg |-> {"SaveFailed"}]
    ELSE [files |-> [label_files EXCEPT ![SavePath] = File(SubSeq(EncodeBoxes(boxes, img_width, img_height), 1, io[2]))], ild |-> image_list_data, mod |-> is_modified, msg |-> {"SaveFailed"}]

\* load_image_data(row), run after the disk, the list and the flag have
\* become files, ild and mod, and the messages m0 were shown
LoadImageData(row, files, ild, mod, m0) ==
    /\ last_selected_row' = row
    /\ current_image_path' = ild[row + 1].path
    /\ image_list_data' = ild
    /\ label_files' = files
    /\ UNCHANGED label_size
    /\ IF ~Decodable(row)
       THEN /\ msg' = m0 \cup {"ReadFailed"}
            /\ is_modified' = mod
            /\ UNCHANGED <<qt_pixmap, img_width, img_height, boxes, current_box, save_enabled, scale_factor, offset>>
       ELSE LET t == ild[row + 1].txt_path
                v == ResetViewFit(row, ImageW(row), ImageH(row), scale_factor, offset)
            IN /\ msg' = m0
               /\ qt_pixmap' = row
               /\ img_width' = ImageW(row)
               /\ img_height' = ImageH(row)
               /\ boxes' = IF t # <<>> /\ files[t].exists THEN ParseLines(files[t].lines, ImageW(row), ImageH(row), classes) ELSE <<>>
               /\ current_box' = <<>>
               /\ is_modified' = FALSE
               /\ save_enabled' = TRUE
               /\ scale_factor' = v.scale
               /\ offset' = v.offset

\* variant of ClickRow that loads the clicked row without looking at
\* is_modified
ClickRow_NoGuard(row) ==
    /\ pc = "idle"
    /\ held = {}
    /\ row + 1 \in DOMAIN image_list_data
    /\ selected_row' = row
    /\ reply' = ""
    /\ IF row = last_selected_row
       THEN /\ msg' = {}
            /\ UNCHANGED <<sessionVars, gestureVars, viewVars, classes, class_index, label_files, held, pc, pending_row>>
       ELSE /\ LoadImageData(row, label_files, image_list_data, is_modified, {})
            /\ UNCHANGED <<drawing, btn_checked, panning, start_point, last_mouse_pos, classes, class_index, held, pc, pending_row>>

\* image_list.cellClicked -> on_image_list_clicked(row, column), up to the
\* question box of check_unsaved_changes.  The list widget has already
\* moved its highlight to the clicked row; a click needs the mouse free.
ClickRow(row) ==
    /\ pc = "idle"
    /\ held = {}
    /\ row + 1 \in DOMAIN image_list_data
    /\ selected_row' = row
    /\ reply' = ""
    /\ IF row = last_selected_row
       THEN /\ msg' = {}
            /\ UNCHANGED <<sessionVars, gestureVars, viewVars, classes, class_index, label_files, held, pc, pending_row>>
       ELSE IF is_modified
       THEN /\ pc' = "ask"
            /\ pending_row' = row
            /\ msg' = {}
            /\ UNCHANGED <<sessionVars, gestureVars, viewVars, classes, class_index, label_files, held>>
       ELSE /\ LoadImageData(row, label_files, image_list_data, is_modified, {})
            /\ UNCHANGED <<drawing, btn_checked, panning, start_point, last_mouse_pos, classes, class_index, held, pc, pending_row>>

\* check_unsaved_changes after the question box closes with Yes
ReplyYes(io) ==
    /\ reply' = "Yes"
    /\ selected_row' = selected_row
    /\ LET s == SaveResult(io) IN LoadImageData(pending_row, s.files, s.ild, s.mod, s.msg)

\* check_unsaved_changes after the question box closes with No
ReplyNo ==
    /\ reply' = "No"
    /\ selected_row' = selected_row
    /\ LoadImageData(pending_row, label_files, image_list_data, is_modified, {})

\* variant of ReplyCancel that leaves the highlight on the clicked row
ReplyCancel_KeepsClickedRow ==
    /\ reply' = "Cancel"
    /\ selected_row' = selected_row
    /\ msg' = {}
    /\ UNCHANGED <<sessionVars, viewVars, current_box, label_files>>

\* on_image_list_clicked after check_unsaved_changes returned False
ReplyCancel ==
    /\ reply' = "Cancel"
    /\ selected_row' = last_selected_row
    /\ msg' = {}
    /\ UNCHANGED <<sessionVars, viewVars, current_box, label_files>>

\* the question box of check_unsaved_changes closes with one of answers;
\* the rest of on_image_list_clicked runs
Reply(answers) ==
    /\ pc = "ask"
    /\ pc' = "idle"
    /\ pending_row' = -1
    /\ \E a \in answers :
          IF a = "Yes" THEN \E io \in SaveOutcomes : ReplyYes(io)
          ELSE IF a = "No" THEN ReplyNo
          ELSE ReplyCancel
    /\ UNCHANGED <<drawing, btn_checked, panning, start_point, last_mouse_pos, classes, class_index, held>>

\* btn_save_annot.clicked / Ctrl+S -> save_annotation; the button is
\* enabled by the first image that loads and stays enabled
SaveAnnotation ==
    /\ pc = "idle"
    /\ save_enabled
    /\ \E io \in SaveOutcomes :
          LET s == SaveResult(io)
          IN /\ label_files' = s.files
             /\ image_list_data' = s.ild
             /\ is_modified' = s.mod
             /\ msg' = s.msg
    /\ reply' = ""
    /\ UNCHANGED <<boxes, current_image_path, qt_pixmap, img_width, img_height, last_selected_row, save_enabled, gestureVars, viewVars, classes, class_index, selected_row, held, pc, pending_row>>

\* btn_load_dataset.clicked -> load_dataset; update_image_list_ui sets the
\* row count and the items, which leaves the highlight of a kept row alone
LoadDataset ==
    /\ pc = "idle"
    /\ image_list_data' = [i \in 1 .. Len(ImageDims) |-> ScanRecord(i - 1, label_files)]
    /\ last_selected_row' = -1
    /\ current_image_path' = -1
    /\ boxes' = <<>>
    /\ is_modified' = FALSE
    /\ qt_pixmap' = -1
    /\ msg' = {}
    /\ reply' = ""
    /\ UNCHANGED <<img_width, img_height, save_enabled, gestureVars, viewVars, envVars, pc, pending_row>>

\* select_classes_file / select_dataset_dir -> load_classes; the combo box
\* is cleared and refilled and, having a placeholder text, shows no item
LoadClasses(table) ==
    /\ pc = "idle"
    /\ classes' = table
    /\ class_index' = -1
    /\ msg' = {}
    /\ reply' = ""
    /\ UNCHANGED <<sessionVars, gestureVars, viewVars, selected_row, label_files, held, pc, pending_row>>

\* the user picks an item of class_combo
SelectClass(i) ==
    /\ pc = "idle"
    /\ i \in 0 .. (Len(classes) - 1)
    /\ class_index' = i
    /\ msg' = {}
    /\ reply' = ""
    /\ UNCHANGED <<sessionVars, gestureVars, viewVars, classes, selected_row, label_files, held, pc, pending_row>>

---------------------------------------------------------------------------
(* Pointer, wheel and tool-button handlers.                                *)

Buttons == {"Left", "Right"}

\* the normalized rectangle between a start point and an image point
RectOf(s, p) == [x1 |-> Min(s[1], p[1]), y1 |-> Min(s[2], p[2]), x2 |-> Max(s[1], p[1]), y2 |-> Max(s[2], p[2])]

\* on_mouse_release: x2 - x1 > 2 and y2 - y1 > 2
BigEnough(r) == r.x2 - r.x1 > 2 /\ r.y2 - r.y1 > 2

\* the box on_mouse_release appends for a rectangle
NewBox(r) == [class_id |-> class_index, class_name |-> classes[class_index + 1], x1 |-> r.x1, y1 |-> r.y1, x2 |-> r.x2, y2 |-> r.y2]

\* image_list_data[last_selected_row]['annot_count'] = n, when a row is selected
WithCount(ild, row, n) == IF row >= 0 THEN [ild EXCEPT ![row + 1].annot_count = n] ELSE ild

\* clear_all_boxes: annot_count = 0 and has_annotation = False, when a row is selected
WithCleared(ild, row) == IF row >= 0 THEN [ild EXCEPT ![row + 1].annot_count = 0, ![row + 1].has_annotation = FALSE] ELSE ild

\* variant of PressStartsPan that forgets the button: in draw-mode every
\* press starts a rectangle
PressStartsPan_AnyButtonDraws(b) == ~drawing

\* right (or middle) button, or left button outside draw-mode: start a pan
PressStartsPan(b) == b = "Right" \/ ~drawing

\* mousePressEvent -> on_mouse_press
MousePress(b, p) ==
    /\ pc = "idle"
    /\ b \notin held
    /\ held' = held \cup {b}
    /\ msg' = {}
    /\ reply' = ""
    /\ IF qt_pixmap = -1
       THEN UNCHANGED <<panning, last_mouse_pos, start_point, current_box>>
       ELSE IF PressStartsPan(b)
       THEN /\ panning' = TRUE
            /\ last_mouse_pos' = p
            /\ UNCHANGED <<start_point, current_box>>
       ELSE LET q == ClampedImgPoint(p[1], p[2])
            IN /\ start_point' = q
               /\ current_box' = <<RectOf(q, q)>>
               /\ UNCHANGED <<panning, last_mouse_pos>>
    /\ UNCHANGED <<sessionVars, drawing, btn_checked, viewVars, classes, class_index, selected_row, label_files, pc, pending_row>>

\* mouseMoveEvent -> on_mouse_move (mouse tracking is on)
MouseMove(p) ==
    /\ pc = "idle"
    /\ msg' = {}
    /\ reply' = ""
    /\ IF qt_pixmap = -1
       THEN UNCHANGED <<offset, last_mouse_pos, current_box>>
       ELSE IF panning
       THEN /\ offset' = <<offset[1] + p[1] - last_mouse_pos[1], offset[2] + p[2] - last_mouse_pos[2]>>
            /\ Abs(offset'[1]) <= MaxOffset
            /\ Abs(offset'[2]) <= MaxOffset
            /\ last_mouse_pos' = p
            /\ UNCHANGED current_box
       ELSE IF drawing /\ start_point # <<>>
       THEN /\ current_box' = <<RectOf(start_point, ClampedImgPoint(p[1], p[2]))>>
            /\ UNCHANGED <<offset, last_mouse_pos>>
       ELSE UNCHANGED <<offset, last_mouse_pos, current_box>>
    /\ UNCHANGED <<sessionVars, drawing, btn_checked, panning, start_point, scale_factor, label_size, envVars, pc, pending_row>>

\* variant of CancelDrawing that discards the rectangle and leaves
\* draw-mode as it is
CancelDrawing_KeepsDrawMode ==
    /\ UNCHANGED <<drawing, btn_checked>>
    /\ start_point' = <<>>
    /\ current_box' = <<>>

\* cancel_drawing
CancelDrawing ==
    /\ drawing' = FALSE
    /\ btn_checked' = FALSE
    /\ start_point' = <<>>
    /\ current_box' = <<>>

\* on_mouse_release, the branch taken when not panning, in draw-mode, with
\* a start point
ReleaseDrawing(p) ==
    IF class_index = -1
    THEN /\ msg' = {"NoClass"}
         /\ CancelDrawing
         /\ UNCHANGED <<boxes, is_modified, image_list_data>>
    ELSE LET r == RectOf(start_point, ClampedImgPoint(p[1], p[2]))
         IN /\ msg' = {}
            /\ CancelDrawing
            /\ IF BigEnough(r)
               THEN /\ Len(boxes) < MaxBoxes
                    /\ boxes' = Append(boxes, NewBox(r))
                    /\ is_modified' = TRUE
                    /\ image_list_data' = WithCount(image_list_data, last_selected_row, Len(boxes) + 1)
               ELSE UNCHANGED <<boxes, is_modified, image_list_data>>

\* mouseReleaseEvent -> on_mouse_release
MouseRelease(b, p) ==
    /\ pc = "idle"
    /\ b \in held
    /\ held' = held \ {b}
    /\ reply' = ""
    /\ IF qt_pixmap = -1
       THEN /\ msg' = {}
            /\ UNCHANGED <<panning, drawing, btn_checked, start_point, current_box, boxes, is_modified, image_list_data>>
       ELSE IF panning
       THEN /\ panning' = FALSE
            /\ msg' = {}
            /\ UNCHANGED <<drawing, btn_checked, start_point, current_box, boxes, is_modified, image_list_data>>
       ELSE IF drawing /\ start_point # <<>>
       THEN /\ ReleaseDrawing(p)
            /\ UNCHANGED panning
       ELSE /\ msg' = {}
            /\ UNCHANGED <<panning, drawing, btn_checked, start_point, current_box, boxes, is_modified, image_list_data>>
    /\ UNCHANGED <<current_image_path, qt_pixmap, img_width, img_height, last_selected_row, save_enabled, last_mouse_pos, viewVars, classes, class_index, selected_row, label_files, pc, pending_row>>

\* wheelEvent -> on_wheel_event
WheelEvent(zoom_in, p) ==
    /\ pc = "idle"
    /\ msg' = {}
    /\ reply' = ""
    /\ IF qt_pixmap = -1
       THEN UNCHANGED viewVars
       ELSE /\ scale_factor' = ZoomScale(scale_factor, zoom_in)
            /\ offset' = ZoomOffset(p[1], p[2], offset, scale_factor, scale_factor')
            /\ scale_factor'[2] <= MaxScaleDen
            /\ Abs(offset'[1]) <= MaxOffset
            /\ Abs(offset'[2]) <= MaxOffset
            /\ UNCHANGED label_size
    /\ UNCHANGED <<sessionVars, gestureVars, envVars, pc, pending_row>>

\* btn_reset_view.clicked -> reset_view_fit
ResetView ==
    /\ pc = "idle"
    /\ LET v == ResetViewFit(qt_pixmap, img_width, img_height, scale_factor, offset)
       IN /\ scale_factor' = v.scale
          /\ offset' = v.offset
    /\ msg' = {}
    /\ reply' = ""
    /\ UNCHANGED <<sessionVars, gestureVars, label_size, envVars, pc, pending_row>>

\* btn_draw_box.clicked -> enable_draw_box(checked); the button has
\* toggled itself before the handler runs
EnableDrawBox ==
    /\ pc = "idle"
    /\ IF qt_pixmap = -1
       THEN /\ btn_checked' = FALSE
            /\ UNCHANGED drawing
       ELSE /\ btn_checked' = ~btn_checked
            /\ drawing' = ~btn_checked
    /\ msg' = {}
    /\ reply' = ""
    /\ UNCHANGED <<sessionVars, panning, start_point, current_box, last_mouse_pos, viewVars, envVars, pc, pending_row>>

\* btn_delete_box.clicked -> delete_selected_box, row the current row of
\* annot_info_table
DeleteSelectedBox(row) ==
    /\ pc = "idle"
    /\ IF row >= 0 /\ row < Len(boxes)
       THEN /\ boxes' = SubSeq(boxes, 1, row) \o SubSeq(boxes, row + 2, Len(boxes))
            /\ is_modified' = TRUE
            /\ image_list_data' = WithCount(image_list_data, last_selected_row, Len(boxes) - 1)
       ELSE UNCHANGED <<boxes, is_modified, image_list_data>>
    /\ msg' = {}
    /\ reply' = ""
    /\ UNCHANGED <<current_image_path, qt_pixmap, img_width, img_height, last_selected_row, save_enabled, gestureVars, viewVars, envVars, pc, pending_row>>

\* btn_clear_all.clicked -> clear_all_boxes, answer the button that closes
\* the confirmation box
ClearAllBoxes(answer) ==
    /\ pc = "idle"
    /\ boxes # <<>>
    /\ IF answer = "Yes"
       THEN /\ boxes' = <<>>
            /\ is_modified' = TRUE
            /\ image_list_data' = WithCleared(image_list_data, last_selected_row)
       ELSE UNCHANGED <<boxes, is_modified, image_list_data>>
    /\ msg' = {}
    /\ reply' = answer
    /\ UNCHANGED <<current_image_path, qt_pixmap, img_width, img_height, last_selected_row, save_enabled, gestureVars, viewVars, envVars, pc, pending_row>>

---------------------------------------------------------------------------
(* The session specification: dataset, image switching, edits, saves.      *)
(* The user works the list and the tool buttons with the mouse, so only    *)
(* while no button is held over the canvas; boxes are drawn with the left  *)
(* button between two fixed pointer positions.                             *)

DownAt == <<5, 5>>

UpAt == <<-100, -100>>

Answers == {"Yes", "No", "Cancel"}

MouseFree == held = {}

Next ==
    \/ \E row \in {0, 1} : ClickRow(row)
    \/ Reply(Answers)
    \/ MouseFree /\ SaveAnnotation
    \/ MouseFree /\ LoadDataset
    \/ MouseFree /\ LoadClasses(<<"cat", "dog">>)
    \/ MouseFree /\ SelectClass(0)
    \/ MousePress("Left", DownAt)
    \/ MouseRelease("Left", UpAt)
    \/ MouseFree /\ EnableDrawBox
    \/ MouseFree /\ \E row \in 0 .. 1 : DeleteSelectedBox(row)
    \/ MouseFree /\ \E answer \in {"Yes", "No"} : ClearAllBoxes(answer)

Spec == Init /\ [][Next]_vars

---------------------------------------------------------------------------
(* The session specification over an image that decodes and one that does  *)
(* not.                                                                    *)

NextDecode ==
    \/ \E row \in {0, 2} : ClickRow(row)
    \/ Reply(Answers)
    \/ MouseFree /\ SaveAnnotation
    \/ MouseFree /\ LoadDataset
    \/ MouseFree /\ LoadClasses(<<"cat", "dog">>)
    \/ MouseFree /\ SelectClass(0)
    \/ MousePress("Left", DownAt)
    \/ MouseRelease("Left", UpAt)
    \/ MouseFree /\ EnableDrawBox
    \/ MouseFree /\ \E row \in 0 .. 1 : DeleteSelectedBox(row)
    \/ MouseFree /\ \E answer \in {"Yes", "No"} : ClearAllBoxes(answer)

SpecDecode == Init /\ [][NextDecode]_vars

---------------------------------------------------------------------------
(* The canvas specification: every interleaving of pointer, wheel and      *)
(* draw-mode events over two images, from the state in which the dataset   *)
(* and a class table have been loaded and no label file exists.  Unsaved   *)
(* boxes are discarded or kept, never saved.                               *)

EmptyDisk == [p \in TxtPaths |-> NoFile]

InitCanvas ==
    /\ drawing = FALSE
    /\ boxes = <<>>
    /\ current_image_path = -1
    /\ image_list_data = [i \in 1 .. Len(ImageDims) |-> ScanRecord(i - 1, EmptyDisk)]
    /\ classes = <<"cat", "dog">>
    /\ qt_pixmap = -1
    /\ img_width = 0
    /\ img_height = 0
    /\ is_modified = FALSE
    /\ last_selected_row = -1
    /\ save_enabled = FALSE
    /\ scale_factor = <<1, 1>>
    /\ label_size = CanvasSize
    /\ offset = <<0, 0>>
    /\ last_mouse_pos = <<0, 0>>
    /\ panning = FALSE
    /\ start_point = <<>>
    /\ current_box = <<>>
    /\ btn_checked = FALSE
    /\ class_index = -1
    /\ selected_row = -1
    /\ label_files = EmptyDisk
    /\ held = {}
    /\ pc = "idle"
    /\ pending_row = -1
    /\ msg = {}
    /\ reply = ""

\* the pointer positions the canvas events are drawn from
Positions == {<<9, 7>>, <<-100, -100>>}

NextCanvas ==
    \/ \E row \in {0, 1} : ClickRow(row)
    \/ Reply({"No", "Cancel"})
    \/ SelectClass(0)
    \/ \E b \in Buttons, p \in Positions : MousePress(b, p)
    \/ \E p \in Positions : MouseMove(p)
    \/ \E b \in Buttons, p \in Positions : MouseRelease(b, p)
    \/ WheelEvent(TRUE, <<9, 7>>)
    \/ ResetView
    \/ EnableDrawBox

SpecCanvas == InitCanvas /\ [][NextCanvas]_vars

---------------------------------------------------------------------------
(* Properties.                                                             *)

\* a start point or a provisional rectangle exists
GestureDrawing == start_point # <<>> \/ current_box # <<>>

\* the step is a press of the left button
LeftPressStep == "Left" \notin held /\ "Left" \in held'

\* the step is a release of a button
ReleaseStep == held' # held /\ held' \subseteq held

\* the step makes another image the current one
SwitchStep == current_image_path' # -1 /\ (current_image_path' # current_image_path \/ last_selected_row' # last_selected_row)

\* C1: when a click on another row finds unsaved changes and the question
\* box is closed with Cancel, the current image, the boxes, the modified
\* flag and the highlighted list row are what they were before the click:
\* the click found the highlight on last_selected_row and changed nothing
\* of the session, and Cancel changes nothing and puts the highlight back.
C1_CancelKeepsState ==
    [][/\ (pc = "idle" /\ pc' = "ask") => (is_modified /\ selected_row = last_selected_row /\ UNCHANGED <<current_image_path, boxes, is_modified, last_selected_row, qt_pixmap, img_width, img_height>>)
       /\ (pc = "ask" /\ reply' = "Cancel") => (is_modified' /\ selected_row' = last_selected_row /\ UNCHANGED <<current_image_path, boxes, is_modified, last_selected_row, qt_pixmap, img_width, img_height>>)]_vars

\* C1: a switch away from an image with an unsaved box was cancelled
C1_Witness == pc = "idle" /\ reply = "Cancel" /\ is_modified /\ boxes # <<>> /\ current_image_path = 0 /\ selected_row = 0

\* C2: a click on another row checks is_modified first: with unsaved
\* changes nothing of the session changes until the question box is
\* answered, the answer is the next step, and the current image changes
\* only with the answers Yes and No, which both load the clicked row;
\* Cancel loads nothing.
C2_GuardBeforeSwitch ==
    [][/\ (is_modified /\ SwitchStep) => (pc = "ask" /\ reply' \in {"Yes", "No"})
       /\ (pc = "idle" /\ pc' = "ask") => (is_modified /\ UNCHANGED <<current_image_path, boxes, is_modified, last_selected_row, qt_pixmap, image_list_data, label_files>>)
       /\ (pc = "ask") => (is_modified /\ pc' = "idle" /\ reply' \in Answers)
       /\ (pc = "ask" /\ reply' \in {"Yes", "No"}) => (last_selected_row' = pending_row /\ current_image_path' = pending_row)
       /\ (pc = "ask" /\ reply' = "Cancel") => (~SwitchStep /\ boxes' = boxes)]_vars

\* C2: unsaved changes were discarded and the clicked image loaded
C2_Witness == pc = "idle" /\ reply = "No" /\ current_image_path = 1 /\ qt_pixmap = 1 /\ ~is_modified

\* C3: the session is never panning while a start point or a provisional
\* rectangle exists.
C3_OneGestureAtATime == ~(panning /\ GestureDrawing)

\* C4 as claimed: a start point or provisional rectangle comes into being
\* only by a left press in draw-mode with a class selected.
C4_DrawingNeedsClass == [][(~GestureDrawing /\ GestureDrawing') => (LeftPressStep /\ drawing /\ class_index # -1)]_vars

\* C4 as amended: a start point or provisional rectangle comes into being
\* only by a left press in draw-mode, and every left press in draw-mode
\* over a loaded image creates both, whether or not a class is selected.
C4_DrawingNeedsDrawMode ==
    [][/\ (~GestureDrawing /\ GestureDrawing') => (LeftPressStep /\ drawing /\ qt_pixmap # -1)
       /\ (LeftPressStep /\ drawing /\ qt_pixmap # -1) => (start_point' # <<>> /\ current_box' # <<>> /\ UNCHANGED <<boxes, is_modified>>)]_vars

\* C4: a gesture was started in draw-mode with no class selected
C4_Witness == "Left" \in held /\ drawing /\ class_index = -1 /\ start_point # <<>> /\ current_box # <<>> /\ ~panning

\* C5: a release while a start point or provisional rectangle exists ends
\* the gesture (no start point, no rectangle, not panning) and appends one
\* box carrying the selected class, which needs a class to be selected;
\* otherwise boxes and modified flag are unchanged.
C5_PointerUpEndsDrawing ==
    [][(ReleaseStep /\ GestureDrawing /\ qt_pixmap # -1) =>
          /\ ~GestureDrawing' /\ ~panning'
          /\ \/ UNCHANGED <<boxes, is_modified>>
             \/ /\ class_index # -1 /\ is_modified' /\ Len(boxes') = Len(boxes) + 1
                /\ boxes'[Len(boxes')].class_id = class_index]_vars

\* C6: a release while a start point or provisional rectangle exists and
\* no class is selected reports NoClass, discards the gesture and leaves
\* the boxes and the modified flag alone.
C6_NoClassSelected ==
    [][(ReleaseStep /\ GestureDrawing /\ qt_pixmap # -1 /\ class_index = -1) =>
          (msg' = {"NoClass"} /\ ~GestureDrawing' /\ UNCHANGED <<boxes, is_modified>>)]_vars

\* C7: every box a release appends lies inside the loaded image.
C7_CommittedBoxInsideImage ==
    [][(ReleaseStep /\ Len(boxes') = Len(boxes) + 1) =>
          LET b == boxes'[Len(boxes')]
          IN 0 <= b.x1 /\ b.x1 < b.x2 /\ b.x2 <= img_width /\ 0 <= b.y1 /\ b.y1 < b.y2 /\ b.y2 <= img_height]_vars

\* C8: every box held satisfies x1 < x2 and y1 < y2.
C8_BoxInvariant == \A i \in 1 .. Len(boxes) : boxes[i].x1 < boxes[i].x2 /\ boxes[i].y1 < boxes[i].y2


\* the boxes load_image_data reads for a row from the disk and the list
\* of the next state
LabelBoxes(row) ==
    LET t == image_list_data'[row + 1].txt_path
    IN IF t # <<>> /\ label_files'[t].exists THEN ParseLines(label_files'[t].lines, ImageW(row), ImageH(row), classes') ELSE <<>>

\* C9: a step that changes the boxes of the current image outside a load
\* sets is_modified, and a step that ends with is_modified false either
\* leaves a clean session as it was, or has no current image, or is a load
\* whose boxes are those of the new current image's label file, or is a
\* save of the unchanged boxes to the current image's label file.
C9_ModifiedFlag ==
    [][/\ (pc = "idle" /\ pc' = "idle" /\ boxes' # boxes /\ last_selected_row' = last_selected_row /\ current_image_path' # -1) => is_modified'
       /\ ~is_modified' =>
             \/ ~is_modified /\ UNCHANGED <<boxes, current_image_path>>
             \/ current_image_path' = -1 /\ boxes' = <<>>
             \/ boxes' = LabelBoxes(current_image_path')
             \/ UNCHANGED <<boxes, current_image_path>> /\ label_files'[SavePath] = File(EncodeBoxes(boxes, img_width, img_height))]_vars

\* the ways save_annotation can fail
SaveFailures == {io \in SaveOutcomes : io[1] # "ok"}

\* C10: whenever save_annotation fails with an image loaded it shows the
\* failure message and leaves the modified flag and the list records as
\* they were, and a step of the save button that fails leaves the boxes,
\* the flag and the records unchanged.
C10_SaveFailureKeepsState ==
    [][/\ current_image_path # -1 => \A io \in SaveFailures : LET s == SaveResult(io) IN s.msg = {"SaveFailed"} /\ s.mod = is_modified /\ s.ild = image_list_data
       /\ (pc = "idle" /\ "SaveFailed" \in msg') => UNCHANGED <<boxes, is_modified, image_list_data, current_image_path, last_selected_row>>]_vars

\* C10: a save of unsaved boxes failed and the flag is still set
C10_Witness == pc = "idle" /\ reply = "" /\ msg = {"SaveFailed"} /\ is_modified /\ boxes # <<>>


\* C11: a click that loads a row whose image cannot be decoded shows the
\* read failure and leaves the pixmap, the dimensions, the boxes, the
\* current image and the modified flag as they were.
C11_DecodeFailureKeepsImage ==
    [][(pc = "idle" /\ "ReadFailed" \in msg') => UNCHANGED <<qt_pixmap, img_width, img_height, boxes, is_modified, current_image_path>>]_vars


---------------------------------------------------------------------------
(* The label-file specification: the program starts on a dataset whose     *)
(* label file for the 3x7 image is one of a bounded set of hand-written    *)
(* files and one of the class tables, and the user loads images, deletes   *)
(* boxes and saves.                                                        *)

\* the state after __init__, load_classes(cls) and load_dataset over files
StartedWith(files, cls) ==
    /\ drawing = FALSE
    /\ boxes = <<>>
    /\ current_image_path = -1
    /\ image_list_data = [i \in 1 .. Len(ImageDims) |-> ScanRecord(i - 1, files)]
    /\ classes = cls
    /\ qt_pixmap = -1
    /\ img_width = 0
    /\ img_height = 0
    /\ is_modified = FALSE
    /\ last_selected_row = -1
    /\ save_enabled = FALSE
    /\ scale_factor = <<1, 1>>
    /\ label_size = CanvasSize
    /\ offset = <<0, 0>>
    /\ last_mouse_pos = <<0, 0>>
    /\ panning = FALSE
    /\ start_point = <<>>
    /\ current_box = <<>>
    /\ btn_checked = FALSE
    /\ class_index = -1
    /\ selected_row = -1
    /\ label_files = files
    /\ held = {}
    /\ pc = "idle"
    /\ pending_row = -1
    /\ msg = {}
    /\ reply = ""

\* a line of fewer than five tokens ("short") or with a token that float()
\* or int() rejects ("nan")
Malformed(kind) == [kind |-> kind, cid |-> 0, xc |-> 0, yc |-> 0, w |-> 0, h |-> 0]

\* the boxes with 0 <= x1 < x2 <= w and 0 <= y1 < y2 <= h
ValidBoxes(w, h) == {[x1 |-> a, y1 |-> b, x2 |-> c, y2 |-> d] : a \in 0 .. w - 1, b \in 0 .. h - 1, c \in 1 .. w, d \in 1 .. h} \ {r \in [x1 : 0 .. w - 1, y1 : 0 .. h - 1, x2 : 1 .. w, y2 : 1 .. h] : r.x1 >= r.x2 \/ r.y1 >= r.y2}

\* the least multiple of 4 millionths at or above the edge x of an image
\* w wide, doubled: the value of 2*xc - w or 2*xc + w that int() maps to x
EdgeAt(x, w) == (((2 * Million * x + w - 1) \div w + 3) \div 4) * 4

\* a label line someone wrote by hand that load_image_data decodes to b
HandLine(cid, b, w, h) == Line(cid, (EdgeAt(b.x1, w) + EdgeAt(b.x2, w)) \div 4, (EdgeAt(b.y1, h) + EdgeAt(b.y2, h)) \div 4, (EdgeAt(b.x2, w) - EdgeAt(b.x1, w)) \div 2, (EdgeAt(b.y2, h) - EdgeAt(b.y1, h)) \div 2)

\* the class ids found in the hand-written files
ClassIds == {-3, -1, 0, 1, 5}

\* the kinds of line found in the hand-written files
LineKinds == {Line(0, 500000, 500000, 400000, 400000), Malformed("short"), Malformed("nan")}

\* the hand-written label file of the 1000x800 image: the box 100,100 to
\* 300,300 with class id 2
PhotoFile == File(<<Line(2, 200001, 250001, 200000, 250000)>>)

\* hand-written label files of the 3x7 image: one line for each valid box
BoxFiles == {File(<<HandLine(0, b, 3, 7)>>) : b \in ValidBoxes(3, 7)}

\* hand-written label files of the 3x7 image: one or two lines with class
\* ids inside and outside the table; three lines, each well-formed or
\* malformed
CodecFiles ==
    {File(<<Line(c, 500000, 500000, 400000, 400000)>>) : c \in ClassIds}
    \cup {File(<<Line(c, 500000, 500000, 400000, 400000), Line(0, 500000, 500000, 400000, 400000)>>) : c \in ClassIds}
    \cup {File(<<a, b, c>>) : a \in LineKinds, b \in LineKinds, c \in LineKinds}

\* the disk with f as the label file of the 3x7 image
CodecDisk(f) == [InitialDisk EXCEPT ![OwnTxt(3)] = f, ![OwnTxt(4)] = PhotoFile]

InitCodec ==
    \/ \E f \in BoxFiles : StartedWith(CodecDisk(f), <<"cat", "dog">>)
    \/ \E f \in CodecFiles, cls \in ClassTables : StartedWith(CodecDisk(f), cls)

NextCodec ==
    \/ \E row \in {3, 4} : ClickRow(row)
    \/ Reply(Answers)
    \/ SaveAnnotation
    \/ DeleteSelectedBox(0)

SpecCodec == InitCodec /\ [][NextCodec]_vars


\* the step loads row r
LoadStep(r) == last_selected_row' = r /\ last_selected_row # r

\* the lines of the label file the load of row r reads
LoadedLines(r) ==
    LET t == image_list_data'[r + 1].txt_path
    IN IF t # <<>> /\ label_files'[t].exists THEN label_files'[t].lines ELSE <<>>

\* the positions of the malformed lines
MalformedAt(ls) == {i \in 1 .. Len(ls) : ls[i].kind # "ok"}

\* C12: loading a label file with exactly one malformed line, the class
\* ids of the other lines not negative, yields one box for every other
\* line, wherever the malformed line sits.
C12_OneMalformedLineSkipped ==
    [][(LoadStep(3) /\ Cardinality(MalformedAt(LoadedLines(3))) = 1 /\ \A i \in 1 .. Len(LoadedLines(3)) : LoadedLines(3)[i].cid >= 0) =>
          Len(boxes') = Len(LoadedLines(3)) - 1]_vars


\* C13: after every step each label file on disk holds either what it held
\* before the step or the complete lines of the boxes being saved.
C13_AtomicSave ==
    [][\A p \in TxtPaths : label_files'[p] = label_files[p] \/ label_files'[p] = File(EncodeBoxes(boxes, img_width, img_height))]_vars


---------------------------------------------------------------------------
(* The viewport specification: the user loads the 4x4 image and the image  *)
(* far larger than the canvas, turns the wheel both ways, pans with the    *)
(* right button and resets the view.                                       *)

\* the pointer positions of the wheel events
ViewPositions == {<<9, 7>>, <<3, 2>>, <<-100, -100>>}

NextView ==
    \/ \E row \in {1, 5} : ClickRow(row)
    \/ \E zoom_in \in BOOLEAN, p \in ViewPositions : WheelEvent(zoom_in, p)
    \/ \E p \in Positions : MousePress("Right", p)
    \/ \E p \in Positions : MouseMove(p)
    \/ \E p \in Positions : MouseRelease("Right", p)
    \/ ResetView

SpecView == InitCanvas /\ [][NextView]_vars

\* C14: whenever an image is shown the scale lies in [0.01, 50].
C14_ScaleInRange == qt_pixmap # -1 => (~RatLess(scale_factor, Rat(1, 100)) /\ ~RatLess(Rat(50, 1), scale_factor))


\* offset o2 is exactly m - (m - o1) * ratio on one axis
ExactAnchor(m, o1, o2, ratio) == o2 * ratio[2] = m * ratio[2] - (m - o1) * ratio[1]

\* C15: every wheel event over a shown image, at every cursor position and
\* in both directions, ends with offset' = cursor - (cursor - offset) *
\* (scale' / scale) exactly on both axes.
C15_ZoomAnchorExact ==
    [][\A zoom_in \in BOOLEAN, p \in ViewPositions :
          (qt_pixmap # -1 /\ WheelEvent(zoom_in, p)) =>
             LET ratio == RatDiv(scale_factor', scale_factor)
             IN ExactAnchor(p[1], offset[1], offset'[1], ratio) /\ ExactAnchor(p[2], offset[2], offset'[2], ratio)]_vars


\* image points covering every column and every row of a w x h image
SamplePoints(w, h) == {<<x, (x * h) \div w>> : x \in 0 .. w} \cup {<<(y * w) \div h, y>> : y \in 0 .. h}

\* screen_to_img(img_to_screen(p)) in the current viewport
RoundTrip(p) ==
    LET s == ImgToScreen(p[1], p[2], scale_factor, offset)
    IN ScreenToImg(s[1], s[2], scale_factor, offset)

\* C16 as claimed: in every viewport state the round trip of an image
\* point differs from the point by at most 1 pixel in each coordinate.
C16_RoundTripWithinOnePixel ==
    qt_pixmap # -1 => \A p \in SamplePoints(img_width, img_height) : Abs(RoundTrip(p)[1] - p[1]) <= 1 /\ Abs(RoundTrip(p)[2] - p[2]) <= 1

\* C16 as amended: the round trip differs from the point by less than
\* 1 + 1/scale pixels in each coordinate, so by at most 1 pixel when the
\* scale is 1 or more.
C16_RoundTripWithinScale ==
    qt_pixmap # -1 => \A p \in SamplePoints(img_width, img_height) : \A i \in 1 .. 2 :
        /\ Abs(RoundTrip(p)[i] - p[i]) * scale_factor[1] < scale_factor[2] + scale_factor[1]
        /\ ~RatLess(scale_factor, Rat(1, 1)) => Abs(RoundTrip(p)[i] - p[i]) <= 1

\* C16: zoomed out on the large image after a pan and a wheel event, a
\* point comes back more than 1 pixel away
C16_Witness == qt_pixmap = 5 /\ scale_factor = Rat(1, 100) /\ offset # <<0, 0>> /\ \E p \in SamplePoints(img_width, img_height) : Abs(RoundTrip(p)[1] - p[1]) > 1


\* 0 <= x1 < x2 <= w and 0 <= y1 < y2 <= h, with a class id that is none
\* of Python's negative indices
ValidBox(b, w, h) == b.class_id >= 0 /\ 0 <= b.x1 /\ b.x1 < b.x2 /\ b.x2 <= w /\ 0 <= b.y1 /\ b.y1 < b.y2 /\ b.y2 <= h

\* the four coordinates differ by at most 1
Near(a, b) == Abs(a.x1 - b.x1) <= 1 /\ Abs(a.y1 - b.y1) <= 1 /\ Abs(a.x2 - b.x2) <= 1 /\ Abs(a.y2 - b.y2) <= 1

\* the step writes the complete lines of the boxes to a label file
SaveStep == label_files' # label_files /\ label_files'[SavePath] = File(EncodeBoxes(boxes, img_width, img_height))

\* C17: whenever a save has written the boxes, the line written for a
\* valid box decodes, with the same image size, to a box whose four
\* coordinates are each within 1 pixel of the box saved.
C17_CodecRoundTrip ==
    [][SaveStep =>
          \A i \in 1 .. Len(boxes) :
             ValidBox(boxes[i], img_width, img_height) => Near(DecodeLine(label_files'[SavePath].lines[i], img_width, img_height, classes), boxes[i])]_vars

\* C17: the 3x7 image is saved and the file decodes to a box that is not
\* the one saved
C17_Witness ==
    /\ qt_pixmap = 3 /\ current_image_path = 3 /\ ~is_modified /\ boxes # <<>>
    /\ ValidBox(boxes[1], 3, 7)
    /\ label_files[OwnTxt(3)] = File(EncodeBoxes(boxes, 3, 7))
    /\ ParseLines(label_files[OwnTxt(3)].lines, 3, 7, classes) # boxes


\* v millionths is a / b printed with 6 decimals: the nearest millionth
SixDecimals(v, a, b) == Abs(v * b - a * Million) * 2 <= b

\* the line of the 1000x800 example
ExampleLine == Line(2, 200000, 250000, 200000, 250000)

\* C18: a save writes one line for each box, in the order of the boxes,
\* holding the class id and (x1+x2)/2/W, (y1+y2)/2/H, (x2-x1)/W, (y2-y1)/H
\* with 6 decimals; on the 1000x800 image the box 100,100,300,300 of class
\* 2 is written as 2 0.200000 0.250000 0.200000 0.250000, and a load that
\* reads this line yields the box 100,100,300,300 of class 2.
C18_EncodingResult ==
    [][/\ SaveStep =>
             LET ls == label_files'[SavePath].lines
             IN /\ Len(ls) = Len(boxes)
                /\ \A i \in 1 .. Len(boxes) :
                      /\ ls[i].kind = "ok" /\ ls[i].cid = boxes[i].class_id
                      /\ SixDecimals(ls[i].xc, boxes[i].x1 + boxes[i].x2, 2 * img_width)
                      /\ SixDecimals(ls[i].yc, boxes[i].y1 + boxes[i].y2, 2 * img_height)
                      /\ SixDecimals(ls[i].w, boxes[i].x2 - boxes[i].x1, img_width)
                      /\ SixDecimals(ls[i].h, boxes[i].y2 - boxes[i].y1, img_height)
                      /\ (img_width = 1000 /\ img_height = 800 /\ boxes[i].class_id = 2 /\ boxes[i].x1 = 100 /\ boxes[i].y1 = 100 /\ boxes[i].x2 = 300 /\ boxes[i].y2 = 300) => ls[i] = ExampleLine
       /\ (LoadStep(4) /\ LoadedLines(4) = <<ExampleLine>>) =>
             (Len(boxes') = 1 /\ boxes'[1].class_id = 2 /\ boxes'[1].x1 = 100 /\ boxes'[1].y1 = 100 /\ boxes'[1].x2 = 300 /\ boxes'[1].y2 = 300)]_vars

\* C18: the box of the 1000x800 image, loaded from the hand-written file,
\* was saved and the file holds the example line
C18_Witness ==
    /\ qt_pixmap = 4 /\ current_image_path = 4 /\ ~is_modified
    /\ Len(boxes) = 1 /\ boxes[1].class_id = 2 /\ boxes[1].x1 = 100 /\ boxes[1].y1 = 100 /\ boxes[1].x2 = 300 /\ boxes[1].y2 = 300
    /\ label_files[OwnTxt(4)] = File(<<ExampleLine>>)


\* the step changes the boxes of the image that stays current
EditStep == boxes' # boxes /\ last_selected_row' = last_selected_row /\ last_selected_row >= 0

\* C19: after every commit, delete or clear-all the record of the current
\* image has annot_count equal to the number of boxes and has_annotation
\* equal to (annot_count > 0).
C19_RecordBookkeeping ==
    [][EditStep =>
          LET rec == image_list_data'[last_selected_row + 1]
          IN rec.annot_count = Len(boxes') /\ rec.has_annotation = (Len(boxes') > 0)]_vars


\* C20: loading a label file of well-formed lines yields one box per line,
\* with class_name the table entry for a class id inside the table and
\* the decimal string of the id for every other id.
C20_ClassDegradation ==
    [][(LoadStep(3) /\ MalformedAt(LoadedLines(3)) = {}) =>
          /\ Len(boxes') = Len(LoadedLines(3))
          /\ \A i \in 1 .. Len(boxes') :
                LET cid == LoadedLines(3)[i].cid
                IN /\ boxes'[i].class_id = cid
                   /\ boxes'[i].class_name = IF cid >= 0 /\ cid < Len(classes) THEN classes[cid + 1] ELSE Str(cid)]_vars


---------------------------------------------------------------------------
(* The save specification: images with a label file, without one under an  *)
(* images directory with and without a labels directory beside it, and     *)
(* without one elsewhere; the user loads, deletes, saves and rescans.      *)

InitSave == StartedWith(InitialDisk, <<"cat", "dog">>)

NextSave ==
    \/ \E row \in {0, 3, 4, 5} : ClickRow(row)
    \/ Reply(Answers)
    \/ SaveAnnotation
    \/ DeleteSelectedBox(0)
    \/ LoadDataset

SpecSave == InitSave /\ [][NextSave]_vars

\* where the claim sends the save of the current image
Destination ==
    LET rec == image_list_data[current_image_path + 1]
    IN IF rec.txt_path # <<>> THEN rec.txt_path
       ELSE IF InImagesDir[current_image_path + 1] /\ LabelsDirExists[current_image_path + 1] THEN LabelsTxt(current_image_path)
       ELSE OwnTxt(current_image_path)

\* C21: a step that changes a label file changes only the file at the
\* record's txt_path if it has one, else at the labels/ path if the image
\* is under images/ and the labels directory exists, else at the image's
\* own .txt; and unless the save failed the record's txt_path is then the
\* path written.
C21_SaveDestination ==
    [][label_files' # label_files =>
          /\ current_image_path # -1
          /\ \A p \in TxtPaths : label_files'[p] # label_files[p] => p = Destination
          /\ "SaveFailed" \notin msg' => image_list_data'[current_image_path + 1].txt_path = Destination]_vars

\* C21: files were written to a labels directory and next to an image
C21_Witness ==
    /\ label_files[LabelsTxt(5)].exists /\ image_list_data[6].txt_path = LabelsTxt(5)
    /\ label_files[OwnTxt(3)].exists /\ image_list_data[4].txt_path = OwnTxt(3)
    /\ label_files[LabelsTxt(0)] = File(<<>>)


\* the step loads an image that decodes
LoadedStep == last_selected_row' # last_selected_row /\ last_selected_row' >= 0 /\ qt_pixmap' = last_selected_row'

\* C22: after a load of a decodable image there is no start point, no
\* provisional rectangle and no pan, the boxes are those decoded from the
\* label file of the image's record, and is_modified is false.
C22_LoadPostcondition ==
    [][LoadedStep =>
          /\ start_point' = <<>> /\ current_box' = <<>> /\ ~panning'
          /\ boxes' = LabelBoxes(current_image_path')
          /\ ~is_modified']_vars


\* ---------------------------------------------------------------------
\* Resizing the canvas
\* ---------------------------------------------------------------------

\* the sizes the window layout gives annotate_image_label
LabelSizes == {<<12, 10>>, <<0, 0>>, <<24, 20>>}

\* a resize of annotate_image_label: Qt delivers a paintEvent, the only
\* handler installed for it, and on_paint_event draws with the scale and
\* offset it finds
Resize(sz) ==
    /\ pc = "idle"
    /\ sz # label_size
    /\ label_size' = sz
    /\ msg' = {}
    /\ reply' = ""
    /\ UNCHANGED <<sessionVars, gestureVars, scale_factor, offset, envVars, pc, pending_row>>

NextResize ==
    \/ \E row \in {0, 1} : ClickRow(row)
    \/ \E sz \in LabelSizes : Resize(sz)
    \/ \E zoom_in \in BOOLEAN, p \in Positions : WheelEvent(zoom_in, p)
    \/ \E p \in Positions : MousePress("Right", p)
    \/ \E p \in Positions : MouseMove(p)
    \/ \E p \in Positions : MouseRelease("Right", p)
    \/ ResetView

SpecResize == InitCanvas /\ [][NextResize]_vars

\* the gesture is Idle: neither panning nor drawing a rectangle
GestureIdle == ~panning /\ start_point = <<>>

\* the fit-to-window viewport of the shown image in a canvas of size sz
FitFor(sz) ==
    LET s == FitScale(sz[1], sz[2], img_width, img_height)
    IN <<s, FitOffset(sz[1], sz[2], img_width, img_height, s)>>

\* C23: after a resize of the canvas to a non-zero size, made while an image
\* is shown and the gesture is Idle, the viewport is the fit-to-window
\* state for the image and the new canvas size
C23_ResizeRefits ==
    [][(label_size' # label_size /\ qt_pixmap # -1 /\ GestureIdle /\ label_size'[1] # 0 /\ label_size'[2] # 0)
          => <<scale_factor', offset'>> = FitFor(label_size')]_vars


\* the step is a press of button b
PressStepOf(b) == b \notin held /\ b \in held'

\* a press that starts a pan, taken with an image shown and the gesture
\* Idle, leaves the gesture Panning
PressStartsPanning ==
    (qt_pixmap # -1 /\ GestureIdle /\ (PressStepOf("Right") \/ (PressStepOf("Left") /\ ~drawing)))
       => (panning' /\ start_point' = <<>>)

\* while panning, a pointer-move adds the pointer delta since the previous
\* event to the offset and changes nothing else of the session
MoveAddsDelta ==
    \A p \in Positions : (panning /\ qt_pixmap # -1 /\ MouseMove(p))
       => /\ offset' = <<offset[1] + p[1] - last_mouse_pos[1], offset[2] + p[2] - last_mouse_pos[2]>>
          /\ last_mouse_pos' = p
          /\ UNCHANGED <<scale_factor, boxes, is_modified, drawing, btn_checked, start_point, current_box, image_list_data>>

\* a pointer-up taken while panning leaves the gesture Idle
ReleaseEndsPanning == (ReleaseStep /\ panning /\ qt_pixmap # -1) => GestureIdle'

\* C24: a secondary-button press, or a primary-button press with draw-mode
\* off, moves the gesture from Idle to Panning; while Panning every
\* pointer-move adds the pointer delta to the offset and changes nothing
\* else; the pointer-up returns the gesture to Idle
C24_Panning == [][PressStartsPanning /\ MoveAddsDelta /\ ReleaseEndsPanning]_vars

\* C25: whenever a save writes a label file, the image whose pixels,
\* dimensions and boxes are loaded is the image named by the current image
\* path and by the selected row, so the boxes written are those of the
\* image the label file belongs to
C25_SavedToOwnImage ==
    [][label_files' # label_files
          => /\ qt_pixmap = current_image_path
             /\ last_selected_row = current_image_path
             /\ img_width = ImageW(current_image_path)
             /\ img_height = ImageH(current_image_path)]_vars


\* the question box was closed with Yes and the save it started failed
FailedSaveThenSwitch == reply' = "Yes" /\ "SaveFailed" \in msg'

\* C26: when the unsaved-changes question is answered Yes and the save
\* fails, the session stays on the current image, the boxes are what they
\* were and the modified flag is still set
C26_FailedSaveBlocksSwitch ==
    [][FailedSaveThenSwitch
          => /\ UNCHANGED <<current_image_path, last_selected_row, boxes>>
             /\ is_modified']_vars


\* the step drops unsaved edits: the modified flag goes from set to clear
\* and the boxes or the current image are no longer what they were
DropsEdits == is_modified /\ ~is_modified' /\ (boxes' # boxes \/ current_image_path' # current_image_path)

\* C27: a step that drops unsaved edits is the closing of the
\* unsaved-changes question with Yes (save) or No (discard)
C27_NoDropWithoutDecision == [][DropsEdits => reply' \in {"Yes", "No"}]_vars


\* the label file a record of the image list points to
FileOf(rec) == IF rec.txt_path = <<>> THEN NoFile ELSE label_files[rec.txt_path]

\* C28: when the unsaved-changes question is answered No, the record of
\* the image that is left reports the number of lines of its label file,
\* and the has_annotation a load or a save of that file reports, not the
\* counts of the discarded edits
C28_DiscardLeavesNoTrace ==
    [][(pc = "ask" /\ reply' = "No" /\ last_selected_row >= 0)
          => LET rec == image_list_data'[last_selected_row + 1]
                 f == FileOf(rec)
             IN /\ rec.annot_count = Len(f.lines)
                /\ rec.has_annotation \in {f.exists, Len(f.lines) > 0}]_vars


\* the step switches draw-mode off without being a pointer-up
DrawModeOffStep == drawing /\ ~drawing' /\ held' = held

\* C29: a step that switches draw-mode off, or that makes another image
\* the current one, leaves no start point and no provisional rectangle, so
\* that no later pointer-move or pointer-up can resume the old gesture
C29_NoStaleGesture == [][(DrawModeOffStep \/ SwitchStep) => (start_point' = <<>> /\ current_box' = <<>>)]_vars


\* the step is a pointer-up that ends a Drawing gesture
EndsDrawingStep == ReleaseStep /\ start_point # <<>> /\ start_point' = <<>>

\* C30: every pointer-up that ends a Drawing gesture, whether it commits a
\* box, finds the rectangle too small or finds no class selected, leaves
\* draw-mode off and the draw button unchecked; a primary-button press with
\* draw-mode off and an image shown starts a pan and takes no start point;
\* every step that adds a box leaves draw-mode off, so that a second box
\* needs a new activation
C30_DrawModeOneShot ==
    [][/\ EndsDrawingStep => (~drawing' /\ ~btn_checked')
       /\ (PressStepOf("Left") /\ ~drawing /\ qt_pixmap # -1) => (panning' /\ UNCHANGED <<start_point, current_box>>)
       /\ Len(boxes') > Len(boxes) => (EndsDrawingStep /\ drawing /\ ~drawing')]_vars

\* a box was committed, draw-mode is off again, and the next press of the
\* left button has started a pan
C30_Witness == Len(boxes) = 1 /\ ~drawing /\ ~btn_checked /\ panning /\ held = {"Left"} /\ start_point = <<>>
====
